---- MODULE Spec2Model ----
(***************************************************************************)
(* Model of rdp-bruteforcer (src/src/main.rs): hex decoding of NTLM        *)
(* hashes, construction of the credential list from the word lists, and    *)
(* the sequential attempt loop of main/try_combo.                          *)
(*                                                                         *)
(* A Rust String is a sequence of characters, each a one-element TLA+      *)
(* string; WideChar stands for one character whose UTF-8 encoding takes    *)
(* two bytes.  Option and Result values are records, so that values of     *)
(* different shapes can be compared.                                       *)
(***************************************************************************)
EXTENDS Integers, Sequences, FiniteSets, TLC

VARIABLES
    opts,      \* ProgramOptions as parsed (main.rs:189)
    fs,        \* what std::fs::read_to_string returns for each path
    pc,        \* position of main / try_combo
    to_try,    \* Vec<CredentialSet> built at main.rs:200
    i,         \* index of the for loop at main.rs:215
    stdout,    \* what print!/println! have written, in order
    calls,     \* external calls issued (transport, Connector::connect, shutdown) with their results
    open,      \* loop indices whose TcpStream is alive
    panic,     \* message of the panic that ended the process, if any
    hex_s,     \* argument of a stand-alone hex_to_bytes call
    hex_r,     \* its result
    hex_fmt,   \* the bytes of hex_r written back as hex text (main.rs:34)
    reads      \* the paths handed to read_to_string, in order

vars == <<opts, fs, pc, to_try, i, stdout, calls, open, panic, hex_s, hex_r, hex_fmt, reads>>

(***************************************************************************)
(* Bounds of the model.                                                    *)
(***************************************************************************)
MaxLines == 2        \* lines of a password list or a username list
MaxHashLines == 3    \* lines of a hash list
MaxHexLen == 4       \* characters of a string handed to hex_to_bytes alone

(***************************************************************************)
(* Option / Result.                                                        *)
(***************************************************************************)
None == [some |-> FALSE]
Some(x) == [some |-> TRUE, v |-> x]
Ok(x) == [ok |-> TRUE, v |-> x]
Err(e) == [ok |-> FALSE, e |-> e]

(***************************************************************************)
(* Strings.                                                                *)
(***************************************************************************)
NL == "\n"
CR == "\r"
SP == " "
WideChar == "U+00E9"

LowerDigits == <<"0","1","2","3","4","5","6","7","8","9","a","b","c","d","e","f">>
UpperDigits == <<"0","1","2","3","4","5","6","7","8","9","A","B","C","D","E","F">>

Utf8Len(c) == IF c = WideChar THEN 2 ELSE 1

\* str::len: the length in bytes
RECURSIVE str_len(_)
str_len(s) == IF s = <<>> THEN 0 ELSE Utf8Len(Head(s)) + str_len(Tail(s))

\* the number of leading characters of s that end at byte offset idx, or -1
\* when idx is no character boundary of s
CharsBefore(s, idx) ==
    LET ks == {k \in 0..Len(s) : str_len(SubSeq(s, 1, k)) = idx}
    IN  IF ks = {} THEN -1 ELSE CHOOSE k \in ks : TRUE

\* str::get(lo..hi): None unless both ends are character boundaries
get(s, lo, hi) ==
    IF lo <= hi /\ CharsBefore(s, lo) >= 0 /\ CharsBefore(s, hi) >= 0
    THEN Some(SubSeq(s, CharsBefore(s, lo) + 1, CharsBefore(s, hi)))
    ELSE None

\* char::to_digit(16): -1 stands for None
to_digit(c) ==
    IF \E d \in 1..16 : LowerDigits[d] = c
    THEN (CHOOSE d \in 1..16 : LowerDigits[d] = c) - 1
    ELSE IF \E d \in 1..16 : UpperDigits[d] = c
         THEN (CHOOSE d \in 1..16 : UpperDigits[d] = c) - 1
         ELSE -1

\* the digits loop of from_str_radix: None on a non-digit or on overflow of u8
RECURSIVE parse_digits(_, _)
parse_digits(digits, acc) ==
    IF digits = <<>> THEN Some(acc)
    ELSE IF to_digit(Head(digits)) < 0 THEN None
    ELSE IF acc * 16 + to_digit(Head(digits)) > 255 THEN None
    ELSE parse_digits(Tail(digits), acc * 16 + to_digit(Head(digits)))

\* u8::from_str_radix(src, 16).ok(): an empty string and a lone sign are
\* errors, one leading '+' is skipped, '-' is no sign of an unsigned type
from_str_radix(src) ==
    IF src = <<>> THEN None
    ELSE IF Len(src) = 1 /\ Head(src) \in {"+", "-"} THEN None
    ELSE IF Head(src) = "+" THEN parse_digits(Tail(src), 0)
    ELSE parse_digits(src, 0)

\* the map over (0..s.len()).step_by(2), collected into Option<Vec<u8>>
RECURSIVE collect_pairs(_, _)
collect_pairs(s, at) ==
    IF at >= str_len(s) THEN Some(<<>>)
    ELSE LET sub  == get(s, at, at + 2)
             byte == IF sub.some THEN from_str_radix(sub.v) ELSE None
             rest == collect_pairs(s, at + 2)
         IN  IF byte.some /\ rest.some THEN Some(<<byte.v>> \o rest.v) ELSE None

hex_to_bytes(s) ==
    IF str_len(s) % 2 = 0 THEN collect_pairs(s, 0) ELSE None

(***************************************************************************)
(* Word lists: read_to_string(..).split("\n").map(|v| v.trim() ..).        *)
(***************************************************************************)
UpperLetters == <<"A","B","C","D","E","F","G","H","I","J","K","L","M",
                  "N","O","P","Q","R","S","T","U","V","W","X","Y","Z">>
LowerLetters == <<"a","b","c","d","e","f","g","h","i","j","k","l","m",
                  "n","o","p","q","r","s","t","u","v","w","x","y","z">>
WhiteSpace == {SP, NL, CR, "\t"}

\* str::to_lowercase
to_lowercase(s) ==
    [k \in 1..Len(s) |->
        IF \E u \in 1..26 : UpperLetters[u] = s[k]
        THEN LowerLetters[CHOOSE u \in 1..26 : UpperLetters[u] = s[k]]
        ELSE s[k]]

\* str::trim: leading and trailing whitespace removed
RECURSIVE trim_start(_)
trim_start(s) ==
    IF s # <<>> /\ Head(s) \in WhiteSpace THEN trim_start(Tail(s)) ELSE s

RECURSIVE trim_end(_)
trim_end(s) ==
    IF s # <<>> /\ s[Len(s)] \in WhiteSpace
    THEN trim_end(SubSeq(s, 1, Len(s) - 1)) ELSE s

trim(s) == trim_end(trim_start(s))

\* str::split("\n"): the segments between newlines, empty ones included
RECURSIVE split(_)
split(s) ==
    IF \E k \in 1..Len(s) : s[k] = NL
    THEN LET k == CHOOSE k \in 1..Len(s) :
                      s[k] = NL /\ \A m \in 1..(k - 1) : s[m] # NL
         IN  <<SubSeq(s, 1, k - 1)>> \o split(SubSeq(s, k + 1, Len(s)))
    ELSE <<s>>

read_to_string(path) == fs[path]

(***************************************************************************)
(* Credential and CredentialSet.                                           *)
(***************************************************************************)
Password(text) == [tag |-> "Password", password |-> text]
Hash(bytes) == [tag |-> "Hash", hash |-> bytes]
CredentialSet(username, secret) == [username |-> username, secret |-> secret]

\* mutant: segments that are empty after trimming are left out
password_credentials_SkipsEmpty(text) ==
    LET keep(v) == trim(v) # <<>>
        lines == SelectSeq(split(text), keep)
    IN  [k \in 1..Len(lines) |-> Password(trim(lines[k]))]

\* lines 92-95: the password list as Credential::Password values
password_credentials(text) ==
    LET lines == split(text)
    IN  [k \in 1..Len(lines) |-> Password(trim(lines[k]))]

\* line 101, per entry: trim, lowercase, hex_to_bytes
decode_hash_line(v) == hex_to_bytes(to_lowercase(trim(v)))

\* mutant: an entry that is no hex is dropped instead of ending the run
RECURSIVE decodable(_)
decodable(lines) ==
    IF lines = <<>> THEN <<>>
    ELSE IF decode_hash_line(Head(lines)).some
         THEN <<Hash(decode_hash_line(Head(lines)).v)>> \o decodable(Tail(lines))
         ELSE decodable(Tail(lines))

hash_credentials_SkipsBad(text) == Some(decodable(split(text)))

\* lines 99-102: the hash list; the expect panics on an entry that is no hex
hash_credentials(text) ==
    LET lines == split(text)
    IN  IF \E k \in 1..Len(lines) : ~decode_hash_line(lines[k]).some
        THEN None
        ELSE Some([k \in 1..Len(lines) |-> Hash(decode_hash_line(lines[k]).v)])

\* lines 108-113 and 125-130: one pair per credential, in order
pairs_for(username, credentials) ==
    [k \in 1..Len(credentials) |-> CredentialSet(username, credentials[k])]

\* mutant: the loops are nested the other way round
RECURSIVE pairs_for_all_SecretMajor(_, _)
pairs_for_all_SecretMajor(usernames, credentials) ==
    IF credentials = <<>> THEN <<>>
    ELSE [k \in 1..Len(usernames) |-> CredentialSet(usernames[k], Head(credentials))]
             \o pairs_for_all_SecretMajor(usernames, Tail(credentials))

\* lines 124-131: the usernames in the outer loop
RECURSIVE pairs_for_all(_, _)
pairs_for_all(usernames, credentials) ==
    IF usernames = <<>> THEN <<>>
    ELSE pairs_for(Head(usernames), credentials)
             \o pairs_for_all(Tail(usernames), credentials)

\* lines 118-121
load_usernames(text) ==
    LET lines == split(text)
    IN  [k \in 1..Len(lines) |-> trim(lines[k])]

\* the read_to_string calls of combos_with_username_and_wordlists, in order:
\* line 92, then line 99 unless line 92 returned early, then line 118 unless
\* an earlier read returned early or the expect at line 101 panicked
files_read(username_list, wordlist, hashlist) ==
    LET pw_ok == wordlist.some => read_to_string(wordlist.v).ok
        hs_ok == hashlist.some =>
                     /\ read_to_string(hashlist.v).ok
                     /\ hash_credentials(read_to_string(hashlist.v).v).some
    IN  (IF wordlist.some THEN <<wordlist.v>> ELSE <<>>)
            \o (IF hashlist.some /\ pw_ok THEN <<hashlist.v>> ELSE <<>>)
            \o (IF username_list.some /\ pw_ok /\ hs_ok THEN <<username_list.v>> ELSE <<>>)

\* CredentialSet::combos_with_username_and_wordlists.  The result is
\* Ok(out), Err (a read failed, returned by `?`) or a panic of the expect
\* at line 101.
combos_with_username_and_wordlists(username, username_list, wordlist, hashlist) ==
    LET pw     == IF wordlist.some THEN read_to_string(wordlist.v) ELSE Ok(<<>>)
        hs     == IF hashlist.some THEN read_to_string(hashlist.v) ELSE Ok(<<>>)
        hashes == IF hashlist.some /\ hs.ok THEN hash_credentials(hs.v) ELSE Some(<<>>)
        us     == IF username_list.some THEN read_to_string(username_list.v) ELSE Ok(<<>>)
        credentials ==
            (IF wordlist.some THEN password_credentials(pw.v) ELSE <<>>) \o hashes.v
        single == IF username.some THEN pairs_for(username.v, credentials) ELSE <<>>
        listed == IF username_list.some
                  THEN pairs_for_all(load_usernames(us.v), credentials) ELSE <<>>
    IN  IF ~pw.ok THEN [kind |-> "Err", e |-> pw.e]
        ELSE IF ~hs.ok THEN [kind |-> "Err", e |-> hs.e]
        ELSE IF ~hashes.some
             THEN [kind |-> "Panic",
                   msg |-> "all hashes to to be hex-formatted NTLM Hashes"]
        ELSE IF ~us.ok THEN [kind |-> "Err", e |-> us.e]
        ELSE [kind |-> "Ok", v |-> single \o listed]

(***************************************************************************)
(* The inputs of a run: command lines and file contents.                   *)
(***************************************************************************)
RECURSIVE Join(_)
Join(lines) ==
    IF lines = <<>> THEN <<>>
    ELSE IF Len(lines) = 1 THEN Head(lines)
    ELSE Head(lines) \o <<NL>> \o Join(Tail(lines))

PasswordLine(j) ==
    IF j % 2 = 1 THEN <<"p", LowerDigits[j + 1], CR>> ELSE <<SP, "P", LowerDigits[j + 1]>>
UsernameLine(j) ==
    IF j % 2 = 1 THEN <<SP, "u", LowerDigits[j + 1]>> ELSE <<"U", LowerDigits[j + 1], SP>>
GoodHashLine(j) ==
    IF j % 2 = 1 THEN <<SP, "A", LowerDigits[j + 1]>> ELSE <<LowerDigits[j + 1], "f", CR>>
BadHashLines == {<<"g", "0">>, <<"a", "b", "c">>}

\* hash lists of well-formed entries
GoodHashTexts == {Join([j \in 1..n |-> GoodHashLine(j)]) : n \in 0..MaxHashLines}

\* hash lists with one entry, at any position, that is no hex
BrokenHashTexts ==
    UNION {{Join([j \in 1..n |-> IF j = k THEN b ELSE GoodHashLine(j)]) :
                k \in 1..n, b \in BadHashLines} : n \in 1..MaxHashLines}

\* a signed entry, a blank line, a final newline
OddHashTexts == {<<"+", "f">>, <<SP, "\t">>, GoodHashLine(1) \o <<NL>>}

\* the first n lines, with or without a final newline
PasswordTexts ==
    {Join([j \in 1..n |-> PasswordLine(j)]) \o t : n \in 0..MaxLines, t \in {<<>>, <<NL>>}}
UsernameTexts ==
    {Join([j \in 1..n |-> UsernameLine(j)]) \o t : n \in 0..MaxLines, t \in {<<>>, <<NL>>}}
HashTexts == GoodHashTexts \cup BrokenHashTexts \cup OddHashTexts

IOError == "No such file or directory (os error 2)"
Paths == {"passwords.txt", "hashes.txt", "users.txt"}

Target == "10.0.0.1:3389"
Proxies == {"10.0.0.2:1080"}
Domains == {<<"c", "o", "r", "p">>}
Usernames == {<<"a", "d", "m", "i", "n">>}

OptionOf(S) == {None} \cup {Some(x) : x \in S}

\* a path given on the command line may or may not be readable; a path not
\* given is not read
FileStates(option, Texts) ==
    IF option.some THEN {Err(IOError)} \cup {Ok(t) : t \in Texts} ELSE {Err(IOError)}

ProgramOptions ==
    [logon_domain  : OptionOf(Domains),
     target        : {Target},
     proxy         : OptionOf(Proxies),
     password_list : OptionOf({"passwords.txt"}),
     hash_list     : OptionOf({"hashes.txt"}),
     username_list : OptionOf({"users.txt"}),
     username      : OptionOf(Usernames)]


(***************************************************************************)
(* main and try_combo.                                                     *)
(***************************************************************************)
ConnectError == "Connection refused (os error 111)"
AuthErrors == {"RdpError(InvalidRespond)"}
ShutdownError == "Broken pipe (os error 32)"

Say(line) == stdout' = Append(stdout, line)
PanicWith(msg) == pc' = "panicked" /\ panic' = Some(msg)

\* the pair the loop is at: enumerate() counts from 0
combo == to_try[i + 1]

\* The command lines tried: every combination of lists and files over a
\* direct connection with the default domain, and every combination of
\* proxy and domain over one username with a password list and a hash list.
ListSweep == ~opts.proxy.some /\ ~opts.logon_domain.some

NetworkSweep ==
    /\ opts.username.some
    /\ ~opts.username_list.some
    /\ fs["passwords.txt"] = Ok(Join([j \in 1..MaxLines |-> PasswordLine(j)]))
    /\ fs["hashes.txt"] = Ok(Join([j \in 1..MaxLines |-> GoodHashLine(j)]))

Init ==
    /\ opts \in ProgramOptions
    /\ \E pw \in FileStates(opts.password_list, PasswordTexts) :
       \E hs \in FileStates(opts.hash_list, HashTexts) :
       \E us \in FileStates(opts.username_list, UsernameTexts) :
           fs = [p \in Paths |-> IF p = "passwords.txt" THEN pw
                                 ELSE IF p = "hashes.txt" THEN hs ELSE us]
    /\ ListSweep \/ NetworkSweep
    /\ pc = "main"
    /\ to_try = <<>>
    /\ i = 0
    /\ stdout = <<>>
    /\ calls = <<>>
    /\ open = {}
    /\ panic = None
    /\ hex_s = <<>>
    /\ hex_r = None
    /\ hex_fmt = <<>>
    /\ reads = <<>>

\* mutant: the check of the username sources is missing
CheckUsernameSource_NoCheck ==
    /\ pc = "main"
    /\ Say([line |-> "options"])
    /\ pc' = "build"
    /\ UNCHANGED <<hex_fmt, reads, opts, fs, to_try, i, calls, open, panic, hex_s, hex_r>>

\* mutant: the second test is is_some() instead of is_none()
CheckUsernameSource_WrongTest ==
    /\ pc = "main"
    /\ Say([line |-> "options"])
    /\ IF ~opts.username.some /\ opts.username_list.some
       THEN PanicWith("please pass --username or --username-list in order to set user to scan.")
       ELSE pc' = "build" /\ UNCHANGED panic
    /\ UNCHANGED <<hex_fmt, reads, opts, fs, to_try, i, calls, open, hex_s, hex_r>>

\* main.rs:189-197: print the options, then require a source of usernames
CheckUsernameSource ==
    /\ pc = "main"
    /\ Say([line |-> "options"])
    /\ IF ~opts.username.some /\ ~opts.username_list.some
       THEN PanicWith("please pass --username or --username-list in order to set user to scan.")
       ELSE pc' = "build" /\ UNCHANGED panic
    /\ UNCHANGED <<hex_fmt, reads, opts, fs, to_try, i, calls, open, hex_s, hex_r>>

\* main.rs:200-206: build the list; expect panics on Err
LoadWordlists ==
    /\ pc = "build"
    /\ LET r == combos_with_username_and_wordlists(
                    opts.username, opts.username_list, opts.password_list, opts.hash_list)
       IN  CASE r.kind = "Ok"    -> to_try' = r.v /\ pc' = "check_empty" /\ UNCHANGED panic
             [] r.kind = "Err"   -> PanicWith("wordlist to load successfully") /\ UNCHANGED to_try
             [] r.kind = "Panic" -> PanicWith(r.msg) /\ UNCHANGED to_try
    /\ reads' = reads \o files_read(opts.username_list, opts.password_list, opts.hash_list)
    /\ UNCHANGED <<hex_fmt, opts, fs, i, stdout, calls, open, hex_s, hex_r>>

\* mutant: the emptiness check is missing
CheckEmpty_NoPanic ==
    /\ pc = "check_empty"
    /\ Say([line |-> "got", n |-> Len(to_try)])
    /\ pc' = "loop"
    /\ UNCHANGED <<hex_fmt, reads, opts, fs, to_try, i, calls, open, panic, hex_s, hex_r>>

\* main.rs:208-212
CheckEmpty ==
    /\ pc = "check_empty"
    /\ Say([line |-> "got", n |-> Len(to_try)])
    /\ IF Len(to_try) = 0
       THEN PanicWith("critical: no entries in credential list")
       ELSE pc' = "loop" /\ UNCHANGED panic
    /\ UNCHANGED <<hex_fmt, reads, opts, fs, to_try, i, calls, open, hex_s, hex_r>>

\* main.rs:144-155: the call that establishes the transport
transport_call ==
    IF opts.proxy.some
    THEN [op |-> "Socks4Stream::connect", i |-> i, res |-> "pending",
          args |-> [proxy |-> opts.proxy.v, target |-> opts.target, userid |-> <<>>]]
    ELSE [op |-> "TcpStream::connect", i |-> i, res |-> "pending",
          args |-> [target |-> opts.target]]

\* mutant: the progress text is not written before try_combo is called
StartAttempt_NoProgress ==
    /\ pc = "loop"
    /\ i < Len(to_try)
    /\ calls' = Append(calls, transport_call)
    /\ pc' = "transport"
    /\ UNCHANGED <<hex_fmt, reads, opts, fs, to_try, i, stdout, open, panic, hex_s, hex_r>>

\* main.rs:215-217 and 144-155: the loop takes the next pair, prints the
\* progress text and try_combo asks for the transport
StartAttempt ==
    /\ pc = "loop"
    /\ i < Len(to_try)
    /\ Say([line |-> "try", i |-> i, combo |-> combo])
    /\ calls' = Append(calls, transport_call)
    /\ pc' = "transport"
    /\ UNCHANGED <<hex_fmt, reads, opts, fs, to_try, i, open, panic, hex_s, hex_r>>

\* main.rs:215, 226-227: the iterator is exhausted and main returns
LoopEnd ==
    /\ pc = "loop"
    /\ i >= Len(to_try)
    /\ pc' = "done"
    /\ UNCHANGED <<hex_fmt, reads, opts, fs, to_try, i, stdout, calls, open, panic, hex_s, hex_r>>

Returned(res) == [calls EXCEPT ![Len(calls)].res = res]

\* mutant: both variants go through the password field
connector_HashAsPassword ==
    [domain   |-> IF opts.logon_domain.some THEN opts.logon_domain.v
                  ELSE <<"d", "o", "m", "a", "i", "n">>,
     username |-> combo.username,
     password |-> IF combo.secret.tag = "Password" THEN combo.secret.password
                  ELSE combo.secret.hash,
     password_hash |-> None]

\* main.rs:159-176: the connector for the pair, by the variant of its secret
connector ==
    IF combo.secret.tag = "Password"
    THEN [domain   |-> IF opts.logon_domain.some THEN opts.logon_domain.v
                       ELSE <<"d", "o", "m", "a", "i", "n">>,
          username |-> combo.username,
          password |-> combo.secret.password,
          password_hash |-> None]
    ELSE [domain   |-> IF opts.logon_domain.some THEN opts.logon_domain.v
                       ELSE <<"d", "o", "m", "a", "i", "n">>,
          username |-> combo.username,
          password |-> <<>>,
          password_hash |-> Some(combo.secret.hash)]

\* mutant: a transport error is returned with `?` and counted as a failed attempt
TransportReturns_FailureContinues(ok) ==
    /\ pc = "transport"
    /\ IF ok
       THEN /\ calls' = Append(Returned("Ok"),
                   [op |-> "Connector::connect", i |-> i, res |-> "pending",
                    args |-> connector])
            /\ open' = open \cup {i}
            /\ pc' = "connect"
            /\ UNCHANGED <<stdout, i>>
       ELSE /\ calls' = Returned(ConnectError)
            /\ Say([line |-> "fail", e |-> ConnectError])
            /\ i' = i + 1
            /\ pc' = "loop"
            /\ UNCHANGED open
    /\ UNCHANGED <<hex_fmt, reads, opts, fs, to_try, panic, hex_s, hex_r>>

\* main.rs:151, 155 and 159-179: the transport call returns; unwrap/expect
\* panic on Err, otherwise the connector is built and connect(tcp) is called
TransportReturns(ok) ==
    /\ pc = "transport"
    /\ IF ok
       THEN /\ calls' = Append(Returned("Ok"),
                   [op |-> "Connector::connect", i |-> i, res |-> "pending",
                    args |-> connector])
            /\ open' = open \cup {i}
            /\ pc' = "connect"
            /\ UNCHANGED panic
       ELSE /\ calls' = Returned(ConnectError)
            /\ PanicWith(IF opts.proxy.some
                         THEN "called Result::unwrap() on an Err value"
                         ELSE "target ip to connect successfully")
            /\ UNCHANGED open
    /\ UNCHANGED <<hex_fmt, reads, opts, fs, to_try, i, stdout, hex_s, hex_r>>

\* main.rs:179-181: connect returned a client; shutdown is called on it
ConnectOk ==
    /\ pc = "connect"
    /\ calls' = Append(Returned("Ok"),
                       [op |-> "shutdown", i |-> i, res |-> "pending", args |-> <<>>])
    /\ pc' = "shutdown"
    /\ UNCHANGED <<hex_fmt, reads, opts, fs, to_try, i, stdout, open, panic, hex_s, hex_r>>

\* mutant: the loop steps over the pair after a failed one
ConnectErr_SkipsPair(e) ==
    /\ pc = "connect"
    /\ calls' = Returned(e)
    /\ open' = open \ {i}
    /\ Say([line |-> "fail", e |-> e])
    /\ i' = i + 2
    /\ pc' = "loop"
    /\ UNCHANGED <<hex_fmt, reads, opts, fs, to_try, panic, hex_s, hex_r>>

\* mutant: the result of try_combo is unwrapped, so the error ends the run
ConnectErr_Propagates(e) ==
    /\ pc = "connect"
    /\ calls' = Returned(e)
    /\ open' = open \ {i}
    /\ PanicWith("called Result::unwrap() on an Err value")
    /\ UNCHANGED <<hex_fmt, reads, opts, fs, to_try, i, stdout, hex_s, hex_r>>

\* mutant: the break sits in the Err arm too
ConnectErr_Breaks(e) ==
    /\ pc = "connect"
    /\ calls' = Returned(e)
    /\ open' = open \ {i}
    /\ Say([line |-> "fail", e |-> e])
    /\ pc' = "done"
    /\ UNCHANGED <<hex_fmt, reads, opts, fs, to_try, i, panic, hex_s, hex_r>>

\* mutant: the stream of a failed attempt is kept instead of dropped
ConnectErr_LeaksTransport(e) ==
    /\ pc = "connect"
    /\ calls' = Returned(e)
    /\ Say([line |-> "fail", e |-> e])
    /\ i' = i + 1
    /\ pc' = "loop"
    /\ UNCHANGED <<hex_fmt, reads, opts, fs, to_try, open, panic, hex_s, hex_r>>

\* mutant: the failed pair is tried again
ConnectErr_Retries(e) ==
    /\ pc = "connect"
    /\ calls' = Returned(e)
    /\ open' = open \ {i}
    /\ Say([line |-> "fail", e |-> e])
    /\ pc' = "loop"
    /\ UNCHANGED <<hex_fmt, reads, opts, fs, to_try, i, panic, hex_s, hex_r>>

\* main.rs:184 and 222-225: connect returned Err(e); try_combo returns it,
\* the stream is dropped, main prints the failure and the loop goes on
ConnectErr(e) ==
    /\ pc = "connect"
    /\ calls' = Returned(e)
    /\ open' = open \ {i}
    /\ Say([line |-> "fail", e |-> e])
    /\ i' = i + 1
    /\ pc' = "loop"
    /\ UNCHANGED <<hex_fmt, reads, opts, fs, to_try, panic, hex_s, hex_r>>

\* main.rs:181-182 and 218-221: shutdown returned; unwrap panics on Err,
\* otherwise try_combo returns Ok(()), main prints success and breaks
ShutdownReturns(ok) ==
    /\ pc = "shutdown"
    /\ open' = open \ {i}
    /\ IF ok
       THEN /\ calls' = Returned("Ok")
            /\ Say([line |-> "success"])
            /\ pc' = "done"
            /\ UNCHANGED panic
       ELSE /\ calls' = Returned(ShutdownError)
            /\ PanicWith("called Result::unwrap() on an Err value")
            /\ UNCHANGED stdout
    /\ UNCHANGED <<hex_fmt, reads, opts, fs, to_try, i, hex_s, hex_r>>

Next ==
    \/ CheckUsernameSource
    \/ LoadWordlists
    \/ CheckEmpty
    \/ StartAttempt
    \/ LoopEnd
    \/ \E ok \in BOOLEAN : TransportReturns(ok)
    \/ ConnectOk
    \/ \E e \in AuthErrors : ConnectErr(e)
    \/ \E ok \in BOOLEAN : ShutdownReturns(ok)

Spec == Init /\ [][Next]_vars

\* main.rs:188-227 is one sequential thread and every call it makes returns:
\* from a position that is not terminal the thread moves on.  Every action of
\* Next changes pc, so this is weak fairness of Next, stated on pc.
Advance ==
    /\ pc \in {"main", "build", "check_empty", "loop", "transport", "connect", "shutdown"}
    /\ pc' \in {"build", "check_empty", "loop", "transport", "connect", "shutdown",
               "done", "panicked"}

FairSpec == Spec /\ WF_pc(Advance)


(***************************************************************************)
(* hex_to_bytes on its own: every string over HexAlphabet of at most       *)
(* MaxHexLen characters.                                                   *)
(***************************************************************************)
HexAlphabet == {"0", "9", "a", "F", "g", "+", "-", WideChar}

RECURSIVE StringsUpTo(_, _)
StringsUpTo(A, n) ==
    IF n = 0 THEN {<<>>}
    ELSE LET shorter == StringsUpTo(A, n - 1)
         IN  shorter \cup {Append(t, c) : t \in shorter, c \in A}

InitHex ==
    /\ opts = [logon_domain |-> None, target |-> Target, proxy |-> None,
               password_list |-> None, hash_list |-> None,
               username_list |-> None, username |-> None]
    /\ fs = [p \in Paths |-> Err(IOError)]
    /\ pc = "hex_to_bytes"
    /\ to_try = <<>>
    /\ i = 0
    /\ stdout = <<>>
    /\ calls = <<>>
    /\ open = {}
    /\ panic = None
    /\ hex_s \in StringsUpTo(HexAlphabet, MaxHexLen)
    /\ hex_r = None
    /\ hex_fmt = <<>>
    /\ reads = <<>>

\* main.rs:11-21, called on hex_s
HexToBytes ==
    /\ pc = "hex_to_bytes"
    /\ hex_r' = hex_to_bytes(hex_s)
    /\ pc' = "hex_returned"
    /\ UNCHANGED <<hex_fmt, reads, opts, fs, to_try, i, stdout, calls, open, panic, hex_s>>

\* main.rs:101, the entry lowercased before it is decoded
HexToBytesLowered ==
    /\ pc = "hex_to_bytes"
    /\ hex_r' = hex_to_bytes(to_lowercase(hex_s))
    /\ pc' = "hex_lowered"
    /\ UNCHANGED <<hex_fmt, reads, opts, fs, to_try, i, stdout, calls, open, panic, hex_s>>

\* format!("{:x}", x): the digits of x without padding
format_x(x) ==
    IF x < 16 THEN <<LowerDigits[x + 1]>>
    ELSE <<LowerDigits[(x \div 16) + 1], LowerDigits[(x % 16) + 1]>>

\* mutant: the width is left out of the format string
format_02x_NoPadding(x) == format_x(x)

\* format!("{:02x}", x): padded with zeros to a width of two
format_02x(x) ==
    IF Len(format_x(x)) < 2 THEN <<"0">> \o format_x(x) ELSE format_x(x)

\* main.rs:34: hash.iter().map(|x| format!("{:02x}", x)).collect::<String>()
RECURSIVE hex_string(_)
hex_string(hash) ==
    IF hash = <<>> THEN <<>> ELSE format_02x(Head(hash)) \o hex_string(Tail(hash))

\* main.rs:34 on the decoded entry
FormatHash ==
    /\ pc = "hex_lowered"
    /\ hex_r.some
    /\ hex_fmt' = hex_string(hex_r.v)
    /\ pc' = "hex_formatted"
    /\ UNCHANGED <<reads, opts, fs, to_try, i, stdout, calls, open, panic, hex_s, hex_r>>

NextHex ==
    \/ HexToBytes
    \/ HexToBytesLowered
    \/ FormatHash

SpecHex == InitHex /\ [][NextHex]_vars


(***************************************************************************)
(* Vocabulary of the properties.                                           *)
(***************************************************************************)
IsTransport(c) == c.op \in {"TcpStream::connect", "Socks4Stream::connect"}
IsConnect(c) == c.op = "Connector::connect"
IsShutdown(c) == c.op = "shutdown"
IsTry(l) == l.line = "try"
IsOutcome(l) == l.line \in {"success", "fail"}

TransportCalls == SelectSeq(calls, IsTransport)
ConnectCalls == SelectSeq(calls, IsConnect)
Tries == SelectSeq(stdout, IsTry)
Outcomes == SelectSeq(stdout, IsOutcome)

Failed(c) == c.res \notin {"pending", "Ok"}
Terminal == pc \in {"done", "panicked"}
SuccessState == pc = "done" /\ i < Len(to_try)
ExhaustedState == pc = "done" /\ i = Len(to_try)

NoUsernameMsg == "please pass --username or --username-list in order to set user to scan."
LoadMsgs == {"wordlist to load successfully", "all hashes to to be hex-formatted NTLM Hashes"}
EmptyMsg == "critical: no entries in credential list"

\* the credential list has been built (main.rs:206 returned)
Built ==
    /\ pc \notin {"main", "build", "hex_to_bytes", "hex_returned"}
    /\ ~(pc = "panicked" /\ panic.v \in LoadMsgs \cup {NoUsernameMsg})

LinesOf(option) == split(fs[option.v].v)

(***************************************************************************)
(* C1: if k is the smallest index whose pair authenticates, then exactly   *)
(* the pairs 0..k are attempted, the logged outcomes are Failure for       *)
(* 0..k-1 and Success for k, and nothing is issued for a pair beyond k.    *)
(* Stated of the finished run.                                             *)
(***************************************************************************)
C1_FirstSuccessIsLogged ==
    \A n \in 1..Len(calls) :
        (Terminal /\ IsConnect(calls[n]) /\ calls[n].res = "Ok") =>
            LET k == calls[n].i
            IN  /\ [m \in 1..Len(TransportCalls) |-> TransportCalls[m].i]
                       = [m \in 1..(k + 1) |-> m - 1]
                /\ [m \in 1..Len(Outcomes) |-> Outcomes[m].line]
                       = [m \in 1..(k + 1) |-> IF m <= k THEN "fail" ELSE "success"]
                /\ \A m \in 1..Len(calls) : calls[m].i <= k

(***************************************************************************)
(* C2: the n-th attempt started is for the pair at index n, no pair is     *)
(* skipped, repeated or reordered, at most one external call is            *)
(* outstanding, and an attempt starts only once the outcome of the one     *)
(* before it is known.                                                     *)
(***************************************************************************)
C2_InOrderOneAtATime ==
    /\ \A m \in 1..Len(TransportCalls) : TransportCalls[m].i = m - 1
    /\ \A m \in 1..Len(Tries) : Tries[m].i = m - 1 /\ Tries[m].combo = to_try[m]
    /\ \A m \in 1..Len(ConnectCalls) :
           /\ ConnectCalls[m].i = m - 1
           /\ ConnectCalls[m].args.username = to_try[m].username
    /\ Cardinality({n \in 1..Len(calls) : calls[n].res = "pending"}) <= 1
    /\ \A n \in 1..(Len(calls) - 1) : calls[n].res # "pending"
    /\ Len(TransportCalls) <= Len(Outcomes) + 1

C2_Witness ==
    /\ pc = "connect"
    /\ Len(TransportCalls) = 3
    /\ calls[Len(calls)].res = "pending"

(***************************************************************************)
(* C3: a transport that cannot be established at index i ends the run in   *)
(* a panic: no authentication call for pair i, no Failure outcome for it,  *)
(* nothing for a later pair; a target that refuses every connection sees   *)
(* exactly one transport attempt, that of pair 0.                          *)
(***************************************************************************)
C3_TransportFailureIsFatal ==
    /\ \A n \in 1..Len(calls) :
           (IsTransport(calls[n]) /\ Failed(calls[n])) =>
               /\ n = Len(calls)
               /\ pc = "panicked" /\ panic.some
               /\ stdout[Len(stdout)].line = "try"
               /\ stdout[Len(stdout)].i = calls[n].i
               /\ Len(Outcomes) = calls[n].i
               /\ \A m \in 1..Len(calls) : calls[m].i <= calls[n].i
    /\ (/\ Terminal
        /\ TransportCalls # <<>>
        /\ \A m \in 1..Len(TransportCalls) : TransportCalls[m].res # "Ok")
           => /\ Len(TransportCalls) = 1
              /\ TransportCalls[1].i = 0
              /\ pc = "panicked"

C3_Witness ==
    /\ pc = "panicked"
    /\ calls # <<>>
    /\ IsTransport(calls[Len(calls)])
    /\ Failed(calls[Len(calls)])
    /\ calls[Len(calls)].i = 2
    /\ opts.proxy.some

(***************************************************************************)
(* C4: an authentication failure at index i is reported as a failed        *)
(* attempt with the error it carried, does not end the run, and the loop   *)
(* goes on to the pair at i+1 when there is one.                           *)
(***************************************************************************)
C4_AuthFailureIsRecoverable ==
    \A n \in 1..Len(calls) :
        (IsConnect(calls[n]) /\ Failed(calls[n])) =>
            LET k == calls[n].i
            IN  /\ Len(Outcomes) > k
                /\ Outcomes[k + 1] = [line |-> "fail", e |-> calls[n].res]
                /\ i > k
                /\ n = Len(calls) =>
                       /\ panic = None
                       /\ i = k + 1
                       /\ pc = "loop" \/ ExhaustedState
                       /\ (pc = "loop" /\ k + 1 < Len(to_try)) => ENABLED StartAttempt
                /\ n < Len(calls) =>
                       /\ IsTransport(calls[n + 1])
                       /\ calls[n + 1].i = k + 1

C4_Witness ==
    /\ Len(calls) >= 3
    /\ IsConnect(calls[2]) /\ Failed(calls[2])
    /\ IsTransport(calls[3]) /\ calls[3].i = 1
    /\ pc = "transport"

(***************************************************************************)
(* C5: whenever the authentication returns a session, the run ends in the  *)
(* Success state: the session is shut down, success is reported for that   *)
(* attempt and the loop stops, whatever shutdown returns.                  *)
(***************************************************************************)
C5_AuthSuccessEndsInSuccess ==
    \A n \in 1..Len(calls) :
        (Terminal /\ IsConnect(calls[n]) /\ calls[n].res = "Ok") =>
            /\ SuccessState
            /\ i = calls[n].i
            /\ stdout[Len(stdout)] = [line |-> "success"]
            /\ IsShutdown(calls[Len(calls)]) /\ calls[Len(calls)].res # "pending"
            /\ open = {}

(***************************************************************************)
(* C6: when every pair of a non-empty list has been attempted and has      *)
(* failed authentication, the run ends Exhausted with each pair attempted  *)
(* once.  As claimed: and an overall-failure report follows the            *)
(* per-attempt failure lines.  As checked: the last thing written is the   *)
(* failure line of the last attempt, and main returns without a panic.     *)
(***************************************************************************)
AllPairsFailed ==
    /\ Terminal
    /\ Len(to_try) > 0
    /\ Len(ConnectCalls) = Len(to_try)
    /\ \A m \in 1..Len(ConnectCalls) : Failed(ConnectCalls[m])

EachPairAttemptedOnce ==
    /\ Len(TransportCalls) = Len(to_try)
    /\ \A m \in 1..Len(TransportCalls) : TransportCalls[m].i = m - 1
    /\ \A m \in 1..Len(ConnectCalls) : ConnectCalls[m].i = m - 1

C6_ExhaustedReportsOverallFailure ==
    AllPairsFailed =>
        /\ ExhaustedState
        /\ EachPairAttemptedOnce
        /\ stdout[Len(stdout)].line # "fail"

C6_ExhaustedAfterLastFailureLine ==
    AllPairsFailed =>
        /\ ExhaustedState
        /\ panic = None
        /\ EachPairAttemptedOnce
        /\ Len(stdout) = 2 + 2 * Len(to_try)
        /\ \A m \in 1..Len(to_try) :
               /\ stdout[2 * m + 1] = [line |-> "try", i |-> m - 1, combo |-> to_try[m]]
               /\ stdout[2 * m + 2] = [line |-> "fail", e |-> ConnectCalls[m].res]

C6_Witness ==
    /\ AllPairsFailed
    /\ ExhaustedState
    /\ Len(to_try) >= 3

(***************************************************************************)
(* C7: an empty credential list ends the run in the "no entries" panic     *)
(* with no transport and no authentication call; whenever an attempt has   *)
(* been started the list is non-empty.                                     *)
(***************************************************************************)
C7_EmptySetIsFatal ==
    /\ (calls # <<>> \/ Tries # <<>>) => Len(to_try) > 0
    /\ (Built /\ pc # "check_empty" /\ Len(to_try) = 0) =>
           /\ pc = "panicked"
           /\ panic = Some(EmptyMsg)
           /\ calls = <<>>
    /\ (/\ Terminal
        /\ opts.username.some
        /\ ~opts.password_list.some
        /\ ~opts.hash_list.some
        /\ opts.username_list.some => fs[opts.username_list.v].ok)
           => panic = Some(EmptyMsg) /\ calls = <<>>

C7_Witness ==
    /\ pc = "panicked"
    /\ panic = Some(EmptyMsg)
    /\ opts.username.some
    /\ ~opts.password_list.some
    /\ ~opts.hash_list.some
    /\ calls = <<>>

(***************************************************************************)
(* C8: an unreadable source file, or a hash-list entry at any position     *)
(* that fails hex decoding, aborts the run before the loop with no         *)
(* transport or authentication call; no hash entry is skipped.             *)
(***************************************************************************)
Unreadable(option) == option.some /\ ~fs[option.v].ok

UndecodableHashEntry ==
    /\ opts.hash_list.some
    /\ fs[opts.hash_list.v].ok
    /\ \E k \in 1..Len(LinesOf(opts.hash_list)) :
           ~decode_hash_line(LinesOf(opts.hash_list)[k]).some

UsernameCount ==
    (IF opts.username.some THEN 1 ELSE 0)
        + (IF opts.username_list.some THEN Len(LinesOf(opts.username_list)) ELSE 0)

C8_LoadErrorsFailFast ==
    /\ (\/ Unreadable(opts.password_list)
        \/ Unreadable(opts.hash_list)
        \/ Unreadable(opts.username_list)
        \/ UndecodableHashEntry)
           => /\ pc \in {"main", "build", "panicked"}
              /\ pc = "panicked" => panic.v \in LoadMsgs \cup {NoUsernameMsg}
              /\ to_try = <<>>
              /\ calls = <<>>
              /\ Tries = <<>>
    /\ (Built /\ opts.hash_list.some) =>
           Cardinality({m \in 1..Len(to_try) : to_try[m].secret.tag = "Hash"})
               = UsernameCount * Len(LinesOf(opts.hash_list))

C8_Witness ==
    /\ pc = "panicked"
    /\ panic = Some("all hashes to to be hex-formatted NTLM Hashes")
    /\ opts.password_list.some /\ fs[opts.password_list.v].ok
    /\ Len(LinesOf(opts.hash_list)) = 3
    /\ decode_hash_line(LinesOf(opts.hash_list)[1]).some
    /\ ~decode_hash_line(LinesOf(opts.hash_list)[2]).some
    /\ decode_hash_line(LinesOf(opts.hash_list)[3]).some

(***************************************************************************)
(* C9: with secrets = password secrets then hash secrets (S in all), the   *)
(* list is the S pairs of the single username, if one is given, followed   *)
(* by the U*S pairs of the username list, username-major and               *)
(* secret-minor; nothing is merged or dropped.                             *)
(***************************************************************************)
LoadedSecrets ==
    (IF opts.password_list.some
     THEN password_credentials(fs[opts.password_list.v].v) ELSE <<>>)
        \o (IF opts.hash_list.some
            THEN hash_credentials(fs[opts.hash_list.v].v).v ELSE <<>>)

LoadedUsernames ==
    IF opts.username_list.some THEN load_usernames(fs[opts.username_list.v].v) ELSE <<>>

C9_BuilderOutput ==
    Built =>
        LET secrets   == LoadedSecrets
            usernames == LoadedUsernames
            S   == Len(secrets)
            U   == Len(usernames)
            off == IF opts.username.some THEN S ELSE 0
        IN  /\ Len(to_try) = off + U * S
            /\ opts.username.some =>
                   \A j \in 1..S :
                       to_try[j] = [username |-> opts.username.v, secret |-> secrets[j]]
            /\ \A a \in 0..(U - 1) : \A j \in 0..(S - 1) :
                   to_try[off + a * S + j + 1]
                       = [username |-> usernames[a + 1], secret |-> secrets[j + 1]]

C9_Witness ==
    /\ Built
    /\ opts.username.some
    /\ Len(LoadedUsernames) >= 2
    /\ opts.password_list.some
    /\ opts.hash_list.some
    /\ Len(LoadedSecrets) >= 4
    /\ Len(to_try) = Len(LoadedSecrets) * (1 + Len(LoadedUsernames))

(***************************************************************************)
(* C10: hex_to_bytes fails on every string of odd length and on every      *)
(* string holding a character that is no hex digit, a sign included.       *)
(***************************************************************************)
HexDigitChars ==
    {"0","1","2","3","4","5","6","7","8","9",
     "a","b","c","d","e","f","A","B","C","D","E","F"}

C10_RejectsOddAndNonHex ==
    (/\ pc = "hex_returned"
     /\ \/ Len(hex_s) % 2 = 1
        \/ \E k \in 1..Len(hex_s) : hex_s[k] \notin HexDigitChars)
        => ~hex_r.some


(***************************************************************************)
(* C11: for every even-length string h of hex digits, in any case, the     *)
(* lowercased h decodes, to Len(h)/2 bytes, and the bytes written back as  *)
(* two lowercase hex digits each give the lowercased h.                    *)
(***************************************************************************)
LowerHexDigit(c) ==
    IF \E d \in 1..16 : UpperDigits[d] = c
    THEN LowerDigits[CHOOSE d \in 1..16 : UpperDigits[d] = c] ELSE c

WellFormedHex(h) ==
    /\ Len(h) % 2 = 0
    /\ \A k \in 1..Len(h) : h[k] \in HexDigitChars

C11_HexRoundTrip ==
    /\ (pc \in {"hex_lowered", "hex_formatted"} /\ WellFormedHex(hex_s)) =>
           /\ hex_r.some
           /\ 2 * Len(hex_r.v) = Len(hex_s)
    /\ (pc = "hex_formatted" /\ WellFormedHex(hex_s)) =>
           /\ Len(hex_fmt) = Len(hex_s)
           /\ \A k \in 1..Len(hex_s) : hex_fmt[k] = LowerHexDigit(hex_s[k])

C11_Witness ==
    /\ pc = "hex_formatted"
    /\ hex_s = <<"0", "a", "F", "9">>
    /\ hex_r = Some(<<10, 249>>)
    /\ hex_fmt = <<"0", "a", "f", "9">>


(***************************************************************************)
(* C12: with neither a username nor a username list the run ends in the    *)
(* configuration panic before any file is read, before the list is built   *)
(* and before any attempt; with at least one of them the check passes and  *)
(* the list is built.                                                      *)
(***************************************************************************)
NoUsernameSource == ~opts.username.some /\ ~opts.username_list.some

C12_NoUsernameSourceIsFatal ==
    /\ (NoUsernameSource /\ pc # "main") =>
           /\ pc = "panicked"
           /\ panic = Some(NoUsernameMsg)
           /\ reads = <<>>
           /\ to_try = <<>>
           /\ calls = <<>>
           /\ Tries = <<>>
    /\ (~NoUsernameSource /\ pc # "main") =>
           /\ panic # Some(NoUsernameMsg)
           /\ \/ pc = "build"
              \/ reads = files_read(opts.username_list, opts.password_list, opts.hash_list)

C12_Witness ==
    /\ pc = "panicked"
    /\ panic = Some(NoUsernameMsg)
    /\ opts.password_list.some
    /\ fs[opts.password_list.v].ok
    /\ opts.hash_list.some
    /\ reads = <<>>

(***************************************************************************)
(* C13: a configuration reaches the construction of the list only if,      *)
(* as claimed, exactly one of username and username list is present; as    *)
(* checked, at least one of them is present.                               *)
(***************************************************************************)
ReachedConstruction == pc # "main" /\ panic # Some(NoUsernameMsg)

C13_ExactlyOneUsernameSource ==
    ReachedConstruction => (opts.username.some # opts.username_list.some)

C13_AtLeastOneUsernameSource ==
    ReachedConstruction => (opts.username.some \/ opts.username_list.some)

C13_Witness ==
    /\ Built
    /\ opts.username.some
    /\ opts.username_list.some
    /\ Len(to_try) > 0


(***************************************************************************)
(* C14: the progress text of attempt i, with index i and the pair at       *)
(* index i, is written before the calls of attempt i; the outcome is       *)
(* written once the attempt returns and before the next progress text.     *)
(* As claimed: every started attempt gets its outcome.  As checked: every  *)
(* attempt that returns does; one ended by a panic has its progress text   *)
(* only.                                                                   *)
(***************************************************************************)
C14_EveryAttemptGetsOutcome ==
    Terminal => Len(Outcomes) = Len(Tries)

C14_ReportOrdering ==
    /\ \A n \in 3..Len(stdout) :
           IF n % 2 = 1
           THEN stdout[n] = [line |-> "try", i |-> (n - 3) \div 2,
                             combo |-> to_try[(n - 1) \div 2]]
           ELSE IsOutcome(stdout[n])
    /\ \A n \in 1..Len(calls) : Len(Tries) > calls[n].i
    /\ \A m \in 1..Len(Outcomes) :
           /\ Len(ConnectCalls) >= m
           /\ Outcomes[m] = (IF ConnectCalls[m].res = "Ok"
                             THEN [line |-> "success"]
                             ELSE [line |-> "fail", e |-> ConnectCalls[m].res])
    /\ pc \in {"loop", "done"} => Len(Outcomes) = Len(Tries)
    /\ pc \in {"transport", "connect", "shutdown"} =>
           Len(Tries) = i + 1 /\ Len(Outcomes) = i
    /\ (pc = "panicked" /\ calls # <<>>) =>
           Len(Tries) = i + 1 /\ Len(Outcomes) = i

C14_Witness ==
    /\ pc = "panicked"
    /\ Len(Tries) = 3
    /\ Len(Outcomes) = 2
    /\ stdout[Len(stdout)].line = "try"


(***************************************************************************)
(* C15: one transport call per started attempt, at most one                *)
(* authentication call per attempt and only on that attempt's established  *)
(* transport; at most one transport is open, and none is open when the     *)
(* next attempt starts.  As claimed: transports established = attempts     *)
(* started.  As checked: transport calls issued = attempts started, and    *)
(* the established ones are those whose call returned Ok.                  *)
(***************************************************************************)
IsOk(c) == c.res = "Ok"
Established == SelectSeq(TransportCalls, IsOk)

TransportScoping ==
    /\ Len(TransportCalls) = Len(Tries)
    /\ \A m \in 1..Len(TransportCalls) : TransportCalls[m].i = m - 1
    /\ \A m, n \in 1..Len(ConnectCalls) :
           ConnectCalls[m].i = ConnectCalls[n].i => m = n
    /\ \A n \in 1..Len(calls) :
           IsConnect(calls[n]) =>
               /\ n > 1
               /\ IsTransport(calls[n - 1])
               /\ IsOk(calls[n - 1])
               /\ calls[n - 1].i = calls[n].i
    /\ \A n \in 1..Len(calls) :
           IsShutdown(calls[n]) =>
               /\ n > 1
               /\ IsConnect(calls[n - 1])
               /\ IsOk(calls[n - 1])
               /\ calls[n - 1].i = calls[n].i
    /\ Cardinality(open) <= 1
    /\ open \subseteq {i}
    /\ pc \in {"loop", "transport", "done", "panicked"} => open = {}
    /\ pc \in {"connect", "shutdown"} => open = {i}

C15_EstablishedEqualsStarted ==
    TransportScoping /\ (Terminal => Len(Established) = Len(Tries))

C15_TransportScoping ==
    /\ TransportScoping
    /\ Len(Established) <= Len(Tries)
    /\ Len(Established) >= Len(Tries) - 1
    /\ Len(Established) = Len(Tries) - 1 =>
           /\ calls # <<>>
           /\ IsTransport(calls[Len(calls)])
           /\ ~IsOk(calls[Len(calls)])
    /\ \A m \in 1..Len(Established) : Established[m].i = m - 1

C15_Witness ==
    /\ pc = "connect"
    /\ i = 2
    /\ open = {2}
    /\ Len(Established) = 3
    /\ Len(ConnectCalls) = 3


(***************************************************************************)
(* C16: every authentication call carries the configured domain, or        *)
(* "domain" when none is configured, the pair's username, and the secret   *)
(* by its variant: a password as the plaintext with no digest, a hash as   *)
(* an empty password with the digest set to the pair's bytes.  Transport   *)
(* calls go to the proxy exactly when one is configured.                   *)
(***************************************************************************)
DefaultDomain == <<"d", "o", "m", "a", "i", "n">>

C16_AuthenticationArguments ==
    /\ \A n \in 1..Len(calls) :
           IsConnect(calls[n]) =>
               LET pair == to_try[calls[n].i + 1]
                   a == calls[n].args
               IN  /\ a.domain = (IF opts.logon_domain.some
                                  THEN opts.logon_domain.v ELSE DefaultDomain)
                   /\ a.username = pair.username
                   /\ pair.secret.tag = "Password" =>
                          /\ a.password = pair.secret.password
                          /\ a.password_hash = None
                   /\ pair.secret.tag = "Hash" =>
                          /\ a.password = <<>>
                          /\ a.password_hash = Some(pair.secret.hash)
    /\ \A n \in 1..Len(calls) :
           IsTransport(calls[n]) =>
               /\ (calls[n].op = "Socks4Stream::connect") = opts.proxy.some
               /\ (calls[n].op = "TcpStream::connect") = ~opts.proxy.some
               /\ calls[n].args.target = opts.target
               /\ opts.proxy.some => calls[n].args.proxy = opts.proxy.v

C16_Witness ==
    /\ opts.proxy.some
    /\ ~opts.logon_domain.some
    /\ \E m, n \in 1..Len(ConnectCalls) :
           /\ ConnectCalls[m].args.password_hash = None
           /\ ConnectCalls[m].args.password # <<>>
           /\ ConnectCalls[n].args.password_hash # None
           /\ ConnectCalls[n].args.password_hash.v # <<>>
           /\ ConnectCalls[n].args.domain = DefaultDomain


(***************************************************************************)
(* C17: no segment is filtered out.  A text with n newline characters      *)
(* gives n+1 entries; a password or username list that ends with a newline *)
(* gives a last entry that is the empty string; a hash list that is all    *)
(* whitespace loads, and a hash list whose last line is empty gives a      *)
(* zero-length hash; each such entry is paired, and the loop starts an     *)
(* attempt for every pair it reaches, empty or not.                        *)
(***************************************************************************)
Newlines(text) == Cardinality({k \in 1..Len(text) : text[k] = NL})
EntryCount(option) == IF option.some THEN Newlines(fs[option.v].v) + 1 ELSE 0
EndsWithNewline(option) ==
    /\ option.some
    /\ fs[option.v].ok
    /\ fs[option.v].v # <<>>
    /\ fs[option.v].v[Len(fs[option.v].v)] = NL
AllWhitespace(option) ==
    /\ option.some
    /\ fs[option.v].ok
    /\ \A k \in 1..Len(fs[option.v].v) : fs[option.v].v[k] \in WhiteSpace

C17_EmptySegmentsAreKept ==
    /\ Built =>
           LET P == EntryCount(opts.password_list)
               H == EntryCount(opts.hash_list)
               U == EntryCount(opts.username_list)
               S == P + H
               blocks == (IF opts.username.some THEN 1 ELSE 0) + U
           IN  /\ Len(to_try) = blocks * S
               /\ EndsWithNewline(opts.password_list) =>
                      \A b \in 0..(blocks - 1) :
                          to_try[b * S + P].secret = Password(<<>>)
               /\ EndsWithNewline(opts.hash_list) =>
                      \A b \in 0..(blocks - 1) :
                          to_try[b * S + S].secret = Hash(<<>>)
               /\ AllWhitespace(opts.hash_list) =>
                      \A b \in 0..(blocks - 1) : \A h \in 1..H :
                          to_try[b * S + P + h].secret = Hash(<<>>)
               /\ EndsWithNewline(opts.username_list) =>
                      \A j \in 1..S : to_try[(blocks - 1) * S + j].username = <<>>
    /\ (/\ AllWhitespace(opts.hash_list)
        /\ ~Unreadable(opts.password_list)
        /\ ~Unreadable(opts.username_list)
        /\ ~NoUsernameSource
        /\ pc \notin {"main", "build"}) => Built
    /\ (pc = "loop" /\ i < Len(to_try)) => ENABLED StartAttempt
    /\ \A m \in 1..Len(Outcomes) : Len(ConnectCalls) >= m /\ ConnectCalls[m].i = m - 1

C17_Witness ==
    /\ EndsWithNewline(opts.password_list)
    /\ EndsWithNewline(opts.username_list)
    /\ EndsWithNewline(opts.hash_list)
    /\ \E m, n \in 1..Len(ConnectCalls) :
           /\ to_try[ConnectCalls[m].i + 1].secret = Password(<<>>)
           /\ to_try[ConnectCalls[n].i + 1].secret = Hash(<<>>)
           /\ to_try[ConnectCalls[n].i + 1].username = <<>>


(***************************************************************************)
(* C18: when every call returns, the run reaches a terminal state (the     *)
(* loop ended, by success or exhaustion, or a panic); no more attempts are *)
(* started than there are pairs, the attempts started are the pairs        *)
(* 0, 1, 2, ... each once, the index never goes back, and nothing happens  *)
(* after a terminal state.                                                 *)
(***************************************************************************)
C18_Termination ==
    /\ <>Terminal
    /\ [](/\ Len(Tries) <= Len(to_try)
          /\ \A m \in 1..Len(Tries) : Tries[m].i = m - 1
          /\ \A m \in 1..Len(TransportCalls) : TransportCalls[m].i = m - 1)
    /\ [][i' >= i /\ (Terminal => Terminal')]_vars
    /\ [](Terminal => ~ENABLED Next)

C18_Witness ==
    /\ ExhaustedState
    /\ Len(to_try) >= 4
    /\ Len(Tries) = Len(to_try)
    /\ Len(TransportCalls) = Len(to_try)


====
